---------------------------- MODULE Spec2Model ----------------------------
(***************************************************************************)
(* NEArithmeticSubtractionKernel: output = input1 - input2 over a window,  *)
(* with one vector routine per (policy, type, type, type) combination.     *)
(*                                                                         *)
(* Tensors are one-dimensional rows of elements; a buffer is a sequence of *)
(* element values (position p of the tensor is buffer[p + 1]).  A window   *)
(* is the (start, end, step) triple of dimension X.  Floating-point values *)
(* are integers small enough for IEEE subtraction to be exact.             *)
(***************************************************************************)
EXTENDS Integers, Sequences, FiniteSets

VARIABLES
    ARM_COMPUTE_ENABLE_FP16, \* build flag: half-float vector arithmetic compiled in
    policy,                  \* the ConvertPolicy the caller passes to configure
    input1, input2, output,  \* the caller's tensors: [info, buffer]
    _func, _input1, _input2, _output, _window,  \* the kernel instance
    threads,                 \* each worker thread's position inside run
    sched_todo,              \* scheduler: window positions not yet handed to a worker
    sched_done,              \* scheduler: the sub-windows whose run has returned
    result                   \* outcome of the most recent configure / run call

tensors == <<input1, input2, output>>
kernel  == <<_func, _input1, _input2, _output, _window>>
vars    == <<ARM_COMPUTE_ENABLE_FP16, policy, input1, input2, output,
             _func, _input1, _input2, _output, _window,
             threads, sched_todo, sched_done, result>>

---------------------------------------------------------------------------
(* Bounds of the model *)

\* tensor rows are 16, 32, ... , 16 * MaxSteps elements long
MaxSteps == 2
\* worker threads the scheduler may run concurrently
NumWorkers == 2
\* input data patterns 0 .. MaxSeed
MaxSeed == 1

\* elements processed per loop iteration
num_elems_processed_per_iteration == 16

---------------------------------------------------------------------------
(* Fixed-width integer arithmetic *)

Pow2(n) == IF n = 8 THEN 256 ELSE 65536

\* two's-complement reading of the low `bits` bits of v
WrapSigned(v, bits) ==
    LET m == Pow2(bits)
        r == v % m
    IN  IF r >= m \div 2 THEN r - m ELSE r

WrapUnsigned(v, bits) == v % Pow2(bits)

SatSigned(v, bits) ==
    LET hi == Pow2(bits) \div 2 - 1
        lo == 0 - Pow2(bits) \div 2
    IN  IF v > hi THEN hi ELSE IF v < lo THEN lo ELSE v

SatUnsigned(v, bits) ==
    IF v > Pow2(bits) - 1 THEN Pow2(bits) - 1 ELSE IF v < 0 THEN 0 ELSE v

---------------------------------------------------------------------------
(* NEON intrinsics, on vectors held as sequences of lanes *)

Lanes(v, from, n) == [k \in 1..n |-> v[from + k - 1]]

\* contiguous loads of 16 x 8-bit and 8 x 16-bit lanes from element offset off
vld1q_u8(mem)       == Lanes(mem, 1, 16)
vld1q_qs8(mem)      == Lanes(mem, 1, 16)
vld1q_s16(mem, off) == Lanes(mem, off + 1, 8)

\* de-interleaving loads: val[j] takes every 2nd (4th) element starting at j
vld2q_s16(mem) == [j \in 0..1 |-> [k \in 1..8 |-> mem[2 * (k - 1) + j + 1]]]
vld2q_f16(mem) == [j \in 0..1 |-> [k \in 1..8 |-> mem[2 * (k - 1) + j + 1]]]
vld4q_f32(mem) == [j \in 0..3 |-> [k \in 1..4 |-> mem[4 * (k - 1) + j + 1]]]

\* interleaving stores: element e comes from val[e mod 2] (val[e mod 4])
vst2q_s16(v) == [e \in 1..16 |-> v[(e - 1) % 2][(e - 1) \div 2 + 1]]
vst2q_f16(v) == [e \in 1..16 |-> v[(e - 1) % 2][(e - 1) \div 2 + 1]]
vst4q_f32(v) == [e \in 1..16 |-> v[(e - 1) % 4][(e - 1) \div 4 + 1]]

\* two contiguous 8-lane stores at element offsets 0 and 8
vst1q_s16_pair(lo, hi) == [e \in 1..16 |-> IF e <= 8 THEN lo[e] ELSE hi[e - 8]]
vst1q_u8(v)  == [e \in 1..16 |-> v[e]]
vst1q_qs8(v) == [e \in 1..16 |-> v[e]]

vget_low_u8(v)  == Lanes(v, 1, 8)
vget_high_u8(v) == Lanes(v, 9, 8)
\* zero extension of 8 unsigned 8-bit lanes to 16 bits
vmovl_u8(v) == [k \in 1..8 |-> WrapUnsigned(v[k], 8)]
\* the same 16 bits read as signed
vreinterpretq_s16_u16(v) == [k \in 1..8 |-> WrapSigned(v[k], 16)]

vsubq_u8(a, b)   == [k \in 1..16 |-> WrapUnsigned(a[k] - b[k], 8)]
vqsubq_u8(a, b)  == [k \in 1..16 |-> SatUnsigned(a[k] - b[k], 8)]
vsubq_s16(a, b)  == [k \in 1..8 |-> WrapSigned(a[k] - b[k], 16)]
vqsubq_s16(a, b) == [k \in 1..8 |-> SatSigned(a[k] - b[k], 16)]
vsubq_f32(a, b)  == [k \in 1..4 |-> a[k] - b[k]]
vsubq_f16(a, b)  == [k \in 1..8 |-> a[k] - b[k]]
\* NEFixedPoint: qint8 is a signed 8-bit integer
vsubq_qs8(a, b)  == [k \in 1..16 |-> WrapSigned(a[k] - b[k], 8)]
vqsubq_qs8(a, b) == [k \in 1..16 |-> SatSigned(a[k] - b[k], 8)]

---------------------------------------------------------------------------
(* The compute routines: the body of one loop iteration.  m1 and m2 are    *)
(* the 16 elements at input1.ptr() and input2.ptr(); the value is the 16   *)
(* elements stored at output.ptr().                                        *)

sub_wrap_QS8_QS8_QS8(m1, m2) ==
    LET a == vld1q_qs8(m1)
        b == vld1q_qs8(m2)
    IN  vst1q_qs8(vsubq_qs8(a, b))

sub_saturate_QS8_QS8_QS8(m1, m2) ==
    LET a == vld1q_qs8(m1)
        b == vld1q_qs8(m2)
    IN  vst1q_qs8(vqsubq_qs8(a, b))

sub_wrap_U8_U8_U8(m1, m2) ==
    LET ta1 == vld1q_u8(m1)
        ta2 == vld1q_u8(m2)
    IN  vst1q_u8(vsubq_u8(ta1, ta2))

sub_saturate_U8_U8_U8_wrapping(m1, m2) ==
    LET ta1 == vld1q_u8(m1)
        ta2 == vld1q_u8(m2)
    IN  vst1q_u8(vsubq_u8(ta1, ta2))

sub_saturate_U8_U8_U8(m1, m2) ==
    LET ta1 == vld1q_u8(m1)
        ta2 == vld1q_u8(m2)
    IN  vst1q_u8(vqsubq_u8(ta1, ta2))

sub_wrap_S16_S16_S16_crossed(m1, m2) ==
    LET ta1 == vld2q_s16(m1)
        ta2 == vld2q_s16(m2)
        ta3 == [j \in 0..1 |-> vsubq_s16(ta1[1 - j], ta2[1 - j])]
    IN  vst2q_s16(ta3)

sub_wrap_S16_S16_S16(m1, m2) ==
    LET ta1 == vld2q_s16(m1)
        ta2 == vld2q_s16(m2)
        ta3 == [j \in 0..1 |-> vsubq_s16(ta1[j], ta2[j])]
    IN  vst2q_s16(ta3)

sub_saturate_S16_S16_S16(m1, m2) ==
    LET ta1 == vld2q_s16(m1)
        ta2 == vld2q_s16(m2)
        ta3 == [j \in 0..1 |-> vqsubq_s16(ta1[j], ta2[j])]
    IN  vst2q_s16(ta3)

vsub2q_f16(a, b) == [j \in 0..1 |-> vsubq_f16(a[j], b[j])]

\* the loop body compiled under ARM_COMPUTE_ENABLE_FP16
sub_F16_F16_F16(m1, m2) ==
    LET a == vld2q_f16(m1)
        b == vld2q_f16(m2)
    IN  vst2q_f16(vsub2q_f16(a, b))

sub_F32_F32_F32(m1, m2) ==
    LET ta1 == vld4q_f32(m1)
        ta2 == vld4q_f32(m2)
        ta3 == [j \in 0..3 |-> vsubq_f32(ta1[j], ta2[j])]
    IN  vst4q_f32(ta3)

sub_wrap_S16_U8_S16(m1, m2) ==
    LET bv_0 == vld1q_u8(m2)
        a1_0 == vld1q_s16(m1, 0)
        a2_0 == vld1q_s16(m1, 8)
        r1   == vsubq_s16(a1_0, vreinterpretq_s16_u16(vmovl_u8(vget_low_u8(bv_0))))
        r2   == vsubq_s16(a2_0, vreinterpretq_s16_u16(vmovl_u8(vget_high_u8(bv_0))))
    IN  vst1q_s16_pair(r1, r2)

sub_saturate_S16_U8_S16(m1, m2) ==
    LET bv_0 == vld1q_u8(m2)
        a1_0 == vld1q_s16(m1, 0)
        a2_0 == vld1q_s16(m1, 8)
        r1   == vqsubq_s16(a1_0, vreinterpretq_s16_u16(vmovl_u8(vget_low_u8(bv_0))))
        r2   == vqsubq_s16(a2_0, vreinterpretq_s16_u16(vmovl_u8(vget_high_u8(bv_0))))
    IN  vst1q_s16_pair(r1, r2)

sub_wrap_U8_S16_S16_swapped(m1, m2) ==
    LET bv_0 == vld1q_u8(m1)
        a1_0 == vld1q_s16(m2, 0)
        a2_0 == vld1q_s16(m2, 8)
        r1   == vsubq_s16(a1_0, vreinterpretq_s16_u16(vmovl_u8(vget_low_u8(bv_0))))
        r2   == vsubq_s16(a2_0, vreinterpretq_s16_u16(vmovl_u8(vget_high_u8(bv_0))))
    IN  vst1q_s16_pair(r1, r2)

sub_wrap_U8_S16_S16(m1, m2) ==
    LET bv_0 == vld1q_u8(m1)
        a1_0 == vld1q_s16(m2, 0)
        a2_0 == vld1q_s16(m2, 8)
        r1   == vsubq_s16(vreinterpretq_s16_u16(vmovl_u8(vget_low_u8(bv_0))), a1_0)
        r2   == vsubq_s16(vreinterpretq_s16_u16(vmovl_u8(vget_high_u8(bv_0))), a2_0)
    IN  vst1q_s16_pair(r1, r2)

sub_saturate_U8_S16_S16(m1, m2) ==
    LET bv_0 == vld1q_u8(m1)
        a1_0 == vld1q_s16(m2, 0)
        a2_0 == vld1q_s16(m2, 8)
        r1   == vqsubq_s16(vreinterpretq_s16_u16(vmovl_u8(vget_low_u8(bv_0))), a1_0)
        r2   == vqsubq_s16(vreinterpretq_s16_u16(vmovl_u8(vget_high_u8(bv_0))), a2_0)
    IN  vst1q_s16_pair(r1, r2)

sub_wrap_U8_U8_S16(m1, m2) ==
    LET av_0 == vld1q_u8(m1)
        bv_0 == vld1q_u8(m2)
        a1_0 == vsubq_s16(vreinterpretq_s16_u16(vmovl_u8(vget_low_u8(av_0))),
                          vreinterpretq_s16_u16(vmovl_u8(vget_low_u8(bv_0))))
        a2_0 == vsubq_s16(vreinterpretq_s16_u16(vmovl_u8(vget_high_u8(av_0))),
                          vreinterpretq_s16_u16(vmovl_u8(vget_high_u8(bv_0))))
    IN  vst1q_s16_pair(a1_0, a2_0)

sub_saturate_U8_U8_S16_narrow(m1, m2) ==
    LET av_0 == vld1q_u8(m1)
        bv_0 == vld1q_u8(m2)
        d    == vqsubq_u8(av_0, bv_0)
        a1_0 == vreinterpretq_s16_u16(vmovl_u8(vget_low_u8(d)))
        a2_0 == vreinterpretq_s16_u16(vmovl_u8(vget_high_u8(d)))
    IN  vst1q_s16_pair(a1_0, a2_0)

sub_saturate_U8_U8_S16(m1, m2) ==
    LET av_0 == vld1q_u8(m1)
        bv_0 == vld1q_u8(m2)
        a1_0 == vqsubq_s16(vreinterpretq_s16_u16(vmovl_u8(vget_low_u8(av_0))),
                           vreinterpretq_s16_u16(vmovl_u8(vget_low_u8(bv_0))))
        a2_0 == vqsubq_s16(vreinterpretq_s16_u16(vmovl_u8(vget_high_u8(av_0))),
                           vreinterpretq_s16_u16(vmovl_u8(vget_high_u8(bv_0))))
    IN  vst1q_s16_pair(a1_0, a2_0)

\* (*_func)(...): the iteration body of the routine a function pointer names
CallBody(f, m1, m2) ==
    CASE f = "sub_wrap_QS8_QS8_QS8"     -> sub_wrap_QS8_QS8_QS8(m1, m2)
      [] f = "sub_saturate_QS8_QS8_QS8" -> sub_saturate_QS8_QS8_QS8(m1, m2)
      [] f = "sub_wrap_U8_U8_U8"        -> sub_wrap_U8_U8_U8(m1, m2)
      [] f = "sub_saturate_U8_U8_U8"    -> sub_saturate_U8_U8_U8(m1, m2)
      [] f = "sub_wrap_S16_S16_S16"     -> sub_wrap_S16_S16_S16(m1, m2)
      [] f = "sub_saturate_S16_S16_S16" -> sub_saturate_S16_S16_S16(m1, m2)
      [] f = "sub_F16_F16_F16"          -> sub_F16_F16_F16(m1, m2)
      [] f = "sub_F32_F32_F32"          -> sub_F32_F32_F32(m1, m2)
      [] f = "sub_wrap_S16_U8_S16"      -> sub_wrap_S16_U8_S16(m1, m2)
      [] f = "sub_saturate_S16_U8_S16"  -> sub_saturate_S16_U8_S16(m1, m2)
      [] f = "sub_wrap_U8_S16_S16"      -> sub_wrap_U8_S16_S16(m1, m2)
      [] f = "sub_saturate_U8_S16_S16"  -> sub_saturate_U8_S16_S16(m1, m2)
      [] f = "sub_wrap_U8_U8_S16"       -> sub_wrap_U8_U8_S16(m1, m2)
      [] f = "sub_saturate_U8_U8_S16"   -> sub_saturate_U8_U8_S16(m1, m2)

---------------------------------------------------------------------------
(* Tensors *)

\* DataType values the caller may give a tensor; S32 stands for every type
\* outside the kernel's enumeration, UNKNOWN for an uninitialised info
AdmissibleTypes == {"QS8", "U8", "QS16", "S16", "F16", "F32"}
InputTypes      == AdmissibleTypes \cup {"S32"}
OutputTypes     == InputTypes \cup {"UNKNOWN"}

is_data_type_fixed_point(dt) == dt \in {"QS8", "QS16"}

\* row lengths: whole numbers of iterations, so no border padding is needed
Shapes == {num_elems_processed_per_iteration * n : n \in 1..MaxSteps}
Capacity == num_elems_processed_per_iteration * MaxSteps

Infos(types, shapes) ==
    {[data_type |-> t, tensor_shape |-> s, fixed_point_position |-> f] :
        t \in types, s \in shapes, f \in 0..2}

\* a fixed-point tensor has a fractional-bit position, any other has 0
WellFormedInfo(i) ==
    IF is_data_type_fixed_point(i.data_type)
    THEN i.fixed_point_position \in {1, 2}
    ELSE i.fixed_point_position = 0

\* element values a tensor of each type is filled from: the extremes of the
\* type and values around them
ValueList(dt, k) ==
    CASE dt = "U8" ->
            <<<<0, 10, 250, 255>>, <<1, 127, 128, 254>>, <<5, 100, 200, 3>>>>[k + 1]
      [] dt = "QS8" ->
            <<<<-128, -1, 0, 127>>, <<-127, -64, 1, 100>>, <<-100, 2, 50, 64>>>>[k + 1]
      [] dt \in {"S16", "QS16"} ->
            <<<<-32768, -1, 0, 32767>>, <<-32767, -256, 1, 255>>,
              <<-32513, -255, 256, 32512>>>>[k + 1]
      [] dt \in {"F16", "F32"} ->
            <<<<0, 1, 3, 7>>, <<-2, 5, 11, 100>>, <<-50, 20, 64, 1000>>>>[k + 1]
      [] OTHER -> <<0, 0, 0, 0>>

\* input1 cycles through its list lane by lane, input2 in groups of four lanes,
\* so that one iteration meets every pair of the two lists; successive
\* iterations use successive lists
InputBuffer(dt, role, seed) ==
    [p \in 1..Capacity |->
        LET lane == (p - 1) % num_elems_processed_per_iteration
            blk  == (p - 1) \div num_elems_processed_per_iteration
            L    == ValueList(dt, (seed + blk) % 3)
        IN  IF role = 1 THEN L[(lane % 4) + 1] ELSE L[(lane \div 4) + 1]]

\* what the output buffer holds before any run: a value no run is needed for
OutputBuffer == [p \in 1..Capacity |-> 77]

---------------------------------------------------------------------------
(* Windows *)

Window(s, e, st) == [start |-> s, end |-> e, step |-> st]

\* IKernel's constructor: the empty window of a kernel not yet configured
EmptyWindow == Window(0, 0, 1)

ceil_to_multiple(v, d) == ((v + d - 1) \div d) * d

calculate_max_window(info, steps) ==
    Window(0, ceil_to_multiple(info.tensor_shape, steps), steps)

\* the loop positions of a window
Positions(window) ==
    {x \in window.start..(window.end - 1) : (x - window.start) % window.step = 0}

\* windows a caller may hand to run: the well-formed sub-windows, and windows
\* with a misaligned start, a ragged end, an end beyond the tensor or a
\* foreign step
CallerWindows ==
    {Window(s, e, num_elems_processed_per_iteration) :
        s \in {num_elems_processed_per_iteration * n : n \in 0..(MaxSteps - 1)} \cup {8},
        e \in {num_elems_processed_per_iteration * n : n \in 1..(MaxSteps + 1)} \cup {24}}
    \cup {Window(0, num_elems_processed_per_iteration, 8)}

---------------------------------------------------------------------------
(* Initial states *)

\* arg: the window the caller passed to run; window: the one the routine got
NoThread == [pc |-> "idle", arg |-> EmptyWindow, window |-> EmptyWindow, x |-> 0]
NoResult == [op |-> "none", err |-> "None", set_shape |-> FALSE, set_format |-> FALSE]

Workers == 1..NumWorkers

\* NEArithmeticSubtractionKernel(): every member null, the window empty
Constructed ==
    /\ _func = "nullptr"
    /\ _input1 = "nullptr"
    /\ _input2 = "nullptr"
    /\ _output = "nullptr"
    /\ _window = EmptyWindow
    /\ threads = [w \in Workers |-> NoThread]
    /\ sched_todo = {}
    /\ sched_done = {}
    /\ result = NoResult

InitTensors(i1, i2, io, seed) ==
    /\ input1 = [info |-> i1, buffer |-> InputBuffer(i1.data_type, 1, seed)]
    /\ input2 = [info |-> i2, buffer |-> InputBuffer(i2.data_type, 2, seed)]
    /\ output = [info |-> io, buffer |-> OutputBuffer]

---------------------------------------------------------------------------
(* configure *)

Tensor(h) ==
    CASE h = "input1" -> input1
      [] h = "input2" -> input2
      [] h = "output" -> output

\* Helpers: set the shape of an info whose shape is empty, the format of an
\* info whose data type is unknown; any other info is returned as it is
set_shape_if_empty(info, shape) ==
    IF info.tensor_shape = 0 THEN [info EXCEPT !.tensor_shape = shape] ELSE info

set_format_if_unknown(info, format) ==
    IF info.data_type = "UNKNOWN" THEN [info EXCEPT !.data_type = format] ELSE info

AutoFormat_F16_first(dt1, dt2) ==
    IF dt1 = "F16" \/ dt2 = "F16" THEN "F16"
    ELSE IF dt1 = "S16" \/ dt2 = "S16" THEN "S16"
    ELSE IF dt1 = "F32" \/ dt2 = "F32" THEN "F32"
    ELSE "UNKNOWN"

\* the format the auto-initialisation offers the output ("UNKNOWN": none)
AutoFormat(dt1, dt2) ==
    IF dt1 = "S16" \/ dt2 = "S16" THEN "S16"
    ELSE IF dt1 = "F16" \/ dt2 = "F16" THEN "F16"
    ELSE IF dt1 = "F32" \/ dt2 = "F32" THEN "F32"
    ELSE "UNKNOWN"

\* "Auto initialize output if not initialized"
AutoInitialize(i1, i2, io) ==
    LET shaped == set_shape_if_empty(io, i1.tensor_shape)
        format == AutoFormat(i1.data_type, i2.data_type)
    IN  IF format = "UNKNOWN" THEN shaped ELSE set_format_if_unknown(shaped, format)

\* ARM_COMPUTE_ERROR_ON_MISMATCHING_FIXED_POINT: the data types are not all
\* the same or the fixed-point positions are not all the same
mismatching_fixed_point(i1, i2, io) ==
    ~ /\ i1.data_type = i2.data_type
      /\ i1.data_type = io.data_type
      /\ i1.fixed_point_position = i2.fixed_point_position
      /\ i1.fixed_point_position = io.fixed_point_position

\* the assertions between the auto-initialisation and the table lookup, in
\* the order of the code; "None" when all pass
ValidationError(i1, i2, io) ==
    IF ~(i1.tensor_shape = i2.tensor_shape /\ i1.tensor_shape = io.tensor_shape)
        THEN "ShapeMismatch"
    ELSE IF ~({i1.data_type, i2.data_type, io.data_type} \subseteq AdmissibleTypes)
        THEN "UnsupportedType"
    ELSE IF io.data_type = "U8" /\ (i1.data_type # "U8" \/ i2.data_type # "U8")
        THEN "InvalidTypeCombination"
    ELSE IF /\ \/ is_data_type_fixed_point(i1.data_type)
               \/ is_data_type_fixed_point(i2.data_type)
               \/ is_data_type_fixed_point(io.data_type)
            /\ mismatching_fixed_point(i1, i2, io)
        THEN "FixedPointMismatch"
    ELSE "None"

map_function_short ==
    { <<<<"wrap", "QS8", "QS8", "QS8">>,        "sub_wrap_QS8_QS8_QS8">>,
      <<<<"saturate", "QS8", "QS8", "QS8">>,    "sub_saturate_QS8_QS8_QS8">>,
      <<<<"wrap", "U8", "U8", "U8">>,           "sub_wrap_U8_U8_U8">>,
      <<<<"wrap", "U8", "U8", "S16">>,          "sub_wrap_U8_U8_S16">>,
      <<<<"saturate", "U8", "U8", "U8">>,       "sub_saturate_U8_U8_U8">>,
      <<<<"wrap", "U8", "S16", "S16">>,         "sub_wrap_U8_S16_S16">>,
      <<<<"wrap", "S16", "U8", "S16">>,         "sub_wrap_S16_U8_S16">>,
      <<<<"saturate", "U8", "S16", "S16">>,     "sub_saturate_U8_S16_S16">>,
      <<<<"saturate", "S16", "U8", "S16">>,     "sub_saturate_S16_U8_S16">>,
      <<<<"wrap", "QS16", "QS16", "QS16">>,     "sub_wrap_S16_S16_S16">>,
      <<<<"saturate", "QS16", "QS16", "QS16">>, "sub_saturate_S16_S16_S16">>,
      <<<<"wrap", "S16", "S16", "S16">>,        "sub_wrap_S16_S16_S16">>,
      <<<<"saturate", "S16", "S16", "S16">>,    "sub_saturate_S16_S16_S16">>,
      <<<<"wrap", "F32", "F32", "F32">>,        "sub_F32_F32_F32">>,
      <<<<"saturate", "F32", "F32", "F32">>,    "sub_F32_F32_F32">>,
      <<<<"wrap", "F16", "F16", "F16">>,        "sub_F16_F16_F16">>,
      <<<<"saturate", "F16", "F16", "F16">>,    "sub_F16_F16_F16">> }

\* the static table: key "sub_<policy>_<type1>_<type2>_<type3>", held as the
\* tuple of its four parts, and the routine it names
map_function ==
    { <<<<"wrap", "QS8", "QS8", "QS8">>,        "sub_wrap_QS8_QS8_QS8">>,
      <<<<"saturate", "QS8", "QS8", "QS8">>,    "sub_saturate_QS8_QS8_QS8">>,
      <<<<"wrap", "U8", "U8", "U8">>,           "sub_wrap_U8_U8_U8">>,
      <<<<"wrap", "U8", "U8", "S16">>,          "sub_wrap_U8_U8_S16">>,
      <<<<"saturate", "U8", "U8", "U8">>,       "sub_saturate_U8_U8_U8">>,
      <<<<"saturate", "U8", "U8", "S16">>,      "sub_saturate_U8_U8_S16">>,
      <<<<"wrap", "U8", "S16", "S16">>,         "sub_wrap_U8_S16_S16">>,
      <<<<"wrap", "S16", "U8", "S16">>,         "sub_wrap_S16_U8_S16">>,
      <<<<"saturate", "U8", "S16", "S16">>,     "sub_saturate_U8_S16_S16">>,
      <<<<"saturate", "S16", "U8", "S16">>,     "sub_saturate_S16_U8_S16">>,
      <<<<"wrap", "QS16", "QS16", "QS16">>,     "sub_wrap_S16_S16_S16">>,
      <<<<"saturate", "QS16", "QS16", "QS16">>, "sub_saturate_S16_S16_S16">>,
      <<<<"wrap", "S16", "S16", "S16">>,        "sub_wrap_S16_S16_S16">>,
      <<<<"saturate", "S16", "S16", "S16">>,    "sub_saturate_S16_S16_S16">>,
      <<<<"wrap", "F32", "F32", "F32">>,        "sub_F32_F32_F32">>,
      <<<<"saturate", "F32", "F32", "F32">>,    "sub_F32_F32_F32">>,
      <<<<"wrap", "F16", "F16", "F16">>,        "sub_F16_F16_F16">>,
      <<<<"saturate", "F16", "F16", "F16">>,    "sub_F16_F16_F16">> }

string_from_data_type(dt) == dt

\* "sub_" + ("wrap_" | "saturate_") + type1 + "_" + type2 + "_" + type3
function_to_call(pol, i1, i2, io) ==
    << IF pol = "WRAP" THEN "wrap" ELSE "saturate",
       string_from_data_type(i1.data_type),
       string_from_data_type(i2.data_type),
       string_from_data_type(io.data_type) >>

\* map_function.find(key): the routine, or "end" when the key has no entry
find(key) ==
    IF \E e \in map_function : e[1] = key
    THEN (CHOOSE e \in map_function : e[1] = key)[2]
    ELSE "end"

ConfigureResult(err, i_before, i_after) ==
    [op |-> "configure", err |-> err,
     set_shape  |-> i_before.tensor_shape # i_after.tensor_shape,
     set_format |-> i_before.data_type # i_after.data_type]

\* configure(a1, a2, ao, policy), the handles being tensor names or "nullptr".
\* A failing assertion or ARM_COMPUTE_ERROR leaves configure where it stands.
Configure(a1, a2, ao) ==
    /\ \A w \in Workers : threads[w].pc = "idle"
    /\ IF "nullptr" \in {a1, a2, ao}
       THEN /\ result' = [NoResult EXCEPT !.op = "configure", !.err = "InvalidArgument"]
            /\ UNCHANGED <<tensors, kernel, sched_todo, sched_done>>
       ELSE LET i1  == Tensor(a1).info
                i2  == Tensor(a2).info
                io  == AutoInitialize(i1, i2, Tensor(ao).info)
                err == ValidationError(i1, i2, io)
                f   == find(function_to_call(policy, i1, i2, io))
            IN  /\ output' = [output EXCEPT !.info = io]
                /\ UNCHANGED <<input1, input2>>
                /\ IF err # "None"
                   THEN /\ result' = ConfigureResult(err, output.info, io)
                        /\ UNCHANGED <<kernel, sched_todo, sched_done>>
                   ELSE /\ _input1' = a1
                        /\ _input2' = a2
                        /\ _output' = ao
                        /\ IF f = "end"
                           THEN /\ result' = ConfigureResult("InvalidTypeCombination",
                                                             output.info, io)
                                /\ UNCHANGED <<_func, _window, sched_todo, sched_done>>
                           ELSE /\ _func' = f
                                /\ _window' = calculate_max_window(
                                                  i1, num_elems_processed_per_iteration)
                                /\ sched_todo' = Positions(calculate_max_window(
                                                  i1, num_elems_processed_per_iteration))
                                /\ sched_done' = {}
                                /\ result' = ConfigureResult("None", output.info, io)
    /\ UNCHANGED <<ARM_COMPUTE_ENABLE_FP16, policy, threads>>

---------------------------------------------------------------------------
(* run *)

\* ARM_COMPUTE_ERROR_ON_UNCONFIGURED_KERNEL: the window is still the empty one
IsUnconfigured(window) == window.start = 0 /\ window.end = 0

\* ARM_COMPUTE_ERROR_ON_INVALID_SUBWINDOW: sub is a well-formed window inside
\* full, with full's step, starting a whole number of steps into full
ValidSubwindow(full, sub) ==
    /\ sub.step # 0
    /\ sub.end > sub.start
    /\ (sub.end - sub.start) % sub.step = 0
    /\ full.start <= sub.start
    /\ full.end >= sub.end
    /\ full.step = sub.step
    /\ (sub.start - full.start) % sub.step = 0

RunError_no_subwindow_check(window) ==
    IF IsUnconfigured(_window) THEN "NotConfigured"
    ELSE IF _func = "nullptr" THEN "NullFunction"
    ELSE "None"

\* the three assertions at the head of run, in order; "None" when all pass
RunError(window) ==
    IF IsUnconfigured(_window) THEN "NotConfigured"
    ELSE IF ~ValidSubwindow(_window, window) THEN "InvalidSubwindow"
    ELSE IF _func = "nullptr" THEN "NullFunction"
    ELSE "None"

run_window_configured(window) == _window

\* the window run hands to the routine
run_window(window) == window

IteratorPosition_rebased(window, x) == x - window.start

\* Iterator(tensor, window): the element its ptr() is at when the loop is at x
IteratorPosition(window, x) == x

\* the 16 elements at element offset pos; reads beyond the buffer give 0
Block(buf, pos) ==
    [k \in 1..num_elems_processed_per_iteration |->
        IF pos + k \in DOMAIN buf THEN buf[pos + k] ELSE 0]

StoreBlock(buf, pos, v) ==
    [p \in DOMAIN buf |->
        IF p > pos /\ p <= pos + num_elems_processed_per_iteration
        THEN v[p - pos] ELSE buf[p]]

\* the output buffer after the iteration of routine f at loop position x
IterationOutput(f, window, x, buf) ==
    LET pos == IteratorPosition(window, x)
    IN  StoreBlock(buf, pos,
                   CallBody(f, Block(Tensor(_input1).buffer, pos),
                               Block(Tensor(_input2).buffer, pos)))

\* execute_window_loop run to its end by one caller
RECURSIVE execute_window_loop(_, _, _, _)
execute_window_loop(f, window, x, buf) ==
    IF x >= window.end THEN buf
    ELSE execute_window_loop(f, window, x + window.step,
                             IterationOutput(f, window, x, buf))

RunResult(err) == [NoResult EXCEPT !.op = "run", !.err = err]

\* sub_F16_F16_F16 built without ARM_COMPUTE_ENABLE_FP16 is only an error
NotCompiled(f) == f = "sub_F16_F16_F16" /\ ~ARM_COMPUTE_ENABLE_FP16

\* thread w calls run(window, info): the checks, the call through _func and
\* the routine's entry (its three iterators opened on the window)
Run(w, window) ==
    /\ threads[w].pc = "idle"
    /\ LET err == RunError(window)
       IN  IF err # "None"
           THEN /\ result' = RunResult(err)
                /\ UNCHANGED threads
           ELSE IF NotCompiled(_func)
           THEN /\ result' = RunResult("UnsupportedType")
                /\ UNCHANGED threads
           ELSE /\ result' = RunResult("None")
                /\ threads' = [threads EXCEPT
                                 ![w] = [pc |-> "loop",
                                         arg |-> window,
                                         window |-> run_window(window),
                                         x |-> run_window(window).start]]
    /\ UNCHANGED <<ARM_COMPUTE_ENABLE_FP16, policy, tensors, kernel, sched_done>>

\* one iteration of thread w's execute_window_loop: two loads, the
\* subtraction, the store, the cursors advanced; after the last one the
\* routine and run return, and the scheduler notes the sub-window as done
Step(w) ==
    /\ threads[w].pc = "loop"
    /\ LET window == threads[w].window
           x      == threads[w].x
           nx     == x + window.step
       IN  /\ output' = [output EXCEPT
                           !.buffer = IterationOutput(_func, window, x, @)]
           /\ IF nx < window.end
              THEN /\ threads' = [threads EXCEPT ![w].x = nx]
                   /\ UNCHANGED sched_done
              ELSE /\ threads' = [threads EXCEPT ![w] = NoThread]
                   /\ sched_done' = sched_done \cup {threads[w].arg}
    /\ UNCHANGED <<ARM_COMPUTE_ENABLE_FP16, policy, input1, input2, kernel,
                   sched_todo, result>>

---------------------------------------------------------------------------
(* Specifications *)

Policies == {"WRAP", "SATURATE"}

\* the handles a caller passes to configure: its three tensors, or one null
ConfigureArgs ==
    { <<"input1", "input2", "output">>, <<"nullptr", "input2", "output">>,
      <<"input1", "nullptr", "output">>, <<"input1", "input2", "nullptr">> }

\* the build flag matters to half-float tensors only
BuildFlags(i1) == IF i1.data_type = "F16" THEN BOOLEAN ELSE {TRUE}

\* tensors that pass configure's assertions, and those it accepts
PassesAssertions(i1, i2, io) ==
    ValidationError(i1, i2, AutoInitialize(i1, i2, io)) = "None"

Accepted(pol, i1, i2, io) ==
    /\ PassesAssertions(i1, i2, io)
    /\ find(function_to_call(pol, i1, i2, AutoInitialize(i1, i2, io))) # "end"

InputInfos  == {i \in Infos(InputTypes, Shapes) : WellFormedInfo(i)}
OutputInfos == {i \in Infos(OutputTypes, Shapes \cup {0}) : WellFormedInfo(i)}

\* any tensors a caller may hold, one data pattern
InitConfigure ==
    /\ policy \in Policies
    /\ \E i1 \in InputInfos, i2 \in InputInfos, io \in OutputInfos :
          /\ InitTensors(i1, i2, io, 0)
          /\ ARM_COMPUTE_ENABLE_FP16 \in BuildFlags(i1)
    /\ Constructed

\* tensors of every combination that passes configure's assertions, every
\* data pattern
InitCompute ==
    /\ policy \in Policies
    /\ \E i1 \in InputInfos, i2 \in InputInfos, io \in OutputInfos, seed \in 0..MaxSeed :
          /\ PassesAssertions(i1, i2, io)
          /\ InitTensors(i1, i2, io, seed)
          /\ ARM_COMPUTE_ENABLE_FP16 \in BuildFlags(i1)
    /\ Constructed

\* initialised tensors of every combination configure accepts
Init ==
    /\ policy \in Policies
    /\ \E i1 \in InputInfos, i2 \in InputInfos, io \in OutputInfos, seed \in 0..MaxSeed :
          /\ io.tensor_shape # 0
          /\ io.data_type # "UNKNOWN"
          /\ i1.fixed_point_position <= 1
          /\ Accepted(policy, i1, i2, io)
          /\ InitTensors(i1, i2, io, seed)
          /\ ARM_COMPUTE_ENABLE_FP16 \in BuildFlags(i1)
    /\ Constructed

ConfigureCall == \E a \in ConfigureArgs : Configure(a[1], a[2], a[3])

\* one caller thread, any window
Callers == {1}

RunCall ==
    /\ \E w \in Callers, window \in CallerWindows : Run(w, window)
    /\ UNCHANGED sched_todo

StepSeq == \E w \in Callers : Step(w)

NextSeq == ConfigureCall \/ RunCall \/ StepSeq

\* the scheduler hands a sub-window of positions not yet handed out to an
\* idle worker thread, which calls run on it
Dispatch ==
    \E w \in Workers, window \in CallerWindows :
        /\ ValidSubwindow(_window, window)
        /\ Positions(window) \subseteq sched_todo
        /\ Run(w, window)
        /\ sched_todo' = IF threads'[w].pc = "loop"
                         THEN sched_todo \ Positions(window)
                         ELSE sched_todo

StepAny == \E w \in Workers : Step(w)

Next == ConfigureCall \/ Dispatch \/ StepAny

Spec          == Init /\ [][Next]_vars
SpecConfigure == InitConfigure /\ [][NextSeq]_vars
SpecCompute   == InitCompute /\ [][NextSeq]_vars

---------------------------------------------------------------------------
(* What the claims speak of *)

TypeBits(dt) == IF dt \in {"QS8", "U8"} THEN 8 ELSE 16
TypeMin(dt)  == IF dt = "U8" THEN 0 ELSE 0 - Pow2(TypeBits(dt)) \div 2
TypeMax(dt)  == IF dt = "U8" THEN Pow2(TypeBits(dt)) - 1 ELSE Pow2(TypeBits(dt)) \div 2 - 1
InRange(d, dt) == TypeMin(dt) <= d /\ d <= TypeMax(dt)
IntegerTypes == {"QS8", "U8", "QS16", "S16"}

\* r is d reduced modulo 2^width into the range of dt
IsWrapOf(r, d, dt) == InRange(r, dt) /\ (r - d) % Pow2(TypeBits(dt)) = 0

\* r is d clamped to the range of dt
IsClampOf(r, d, dt) ==
    r = IF d > TypeMax(dt) THEN TypeMax(dt) ELSE IF d < TypeMin(dt) THEN TypeMin(dt) ELSE d

\* r is a - b in an output of type dt under policy pol
IsDifference(r, pol, dt, a, b) ==
    IF dt \notin IntegerTypes THEN r = a - b
    ELSE IF pol = "WRAP" THEN IsWrapOf(r, a - b, dt)
    ELSE IsClampOf(r, a - b, dt)

\* the loop positions whose run has returned since the last configure
DonePositions == UNION {Positions(window) : window \in sched_done}

LaneRange == 1..num_elems_processed_per_iteration

---------------------------------------------------------------------------
\* C1: once a run over a window has returned, each of the 16 output elements
\* of each of its steps holds input1[i] - input2[i] of the same element i
\* under the policy's overflow rule, whatever the routine's lane grouping.
C1_RunWritesDifference ==
    \A x \in DonePositions : \A k \in LaneRange :
        IsDifference(output.buffer[x + k], policy, output.info.data_type,
                     input1.buffer[x + k], input2.buffer[x + k])

\* a 16-bit interleaving routine has run over the second step of a row
C1_Witness ==
    /\ _func = "sub_wrap_S16_S16_S16"
    /\ Window(16, 32, 16) \in sched_done
    /\ input1.buffer[17] # input1.buffer[18]
    /\ output.buffer[17] = WrapSigned(input1.buffer[17] - input2.buffer[17], 16)
    /\ output.buffer[18] = WrapSigned(input1.buffer[18] - input2.buffer[18], 16)
    /\ output.buffer[17] # output.buffer[18]

---------------------------------------------------------------------------
\* the wrapping and the saturating routine of the configured types, applied
\* to the 16 elements at position x
PolicyRoutine(pol) ==
    find(function_to_call(pol, input1.info, input2.info, output.info))
RoutineLane(pol, x, k) ==
    CallBody(PolicyRoutine(pol), Block(input1.buffer, x), Block(input2.buffer, x))[k]

\* C3: for every integer specialization and every operand pair (a, b) a run
\* has processed: the stored element is the configured policy's result; when
\* a - b is representable in the output type the wrapping and the saturating
\* routine both give a - b; otherwise the wrapping routine gives a - b modulo
\* 2^width and the saturating routine the type's minimum or maximum.
C3_WrapSaturateBoundary ==
    output.info.data_type \in IntegerTypes =>
        \A x \in DonePositions : \A k \in LaneRange :
            LET d  == input1.buffer[x + k] - input2.buffer[x + k]
                dt == output.info.data_type
                rw == RoutineLane("WRAP", x, k)
                rs == RoutineLane("SATURATE", x, k)
            IN  /\ output.buffer[x + k] = IF policy = "WRAP" THEN rw ELSE rs
                /\ InRange(d, dt) => rw = d /\ rs = d
                /\ ~InRange(d, dt) =>
                      /\ IsWrapOf(rw, d, dt)
                      /\ rs = IF d < TypeMin(dt) THEN TypeMin(dt) ELSE TypeMax(dt)

\* U8 10 - 250 under SATURATE has been stored as 0
C3_Witness ==
    /\ _func = "sub_saturate_U8_U8_U8"
    /\ \E x \in DonePositions : \E k \in LaneRange :
          /\ input1.buffer[x + k] = 10
          /\ input2.buffer[x + k] = 250
          /\ output.buffer[x + k] = 0

---------------------------------------------------------------------------
\* the 16-bit results of the two mixed-width routines of policy pol on the
\* unsigned 8-bit x and the signed 16-bit y of element p, where one of the
\* two is the routine that ran and stored its result
MixedRan == _func \in {"sub_wrap_U8_S16_S16", "sub_saturate_U8_S16_S16",
                       "sub_wrap_S16_U8_S16", "sub_saturate_S16_U8_S16"}
U8First == input1.info.data_type = "U8"
MixedX(p) == IF U8First THEN input1.buffer[p] ELSE input2.buffer[p]
MixedY(p) == IF U8First THEN input2.buffer[p] ELSE input1.buffer[p]
OtherRoutine ==
    find(function_to_call(policy, input2.info, input1.info, output.info))
OtherLane(x, k) ==
    CallBody(OtherRoutine, Block(input2.buffer, x), Block(input1.buffer, x))[k]

---------------------------------------------------------------------------
\* C9: with both inputs unsigned 8-bit and a signed 16-bit output, every
\* stored element is the exact integer a - b, and the routine of the other
\* policy gives the same value.
C9_PromotedSubtractionExact ==
    _func \in {"sub_wrap_U8_U8_S16", "sub_saturate_U8_U8_S16"} =>
        \A x \in DonePositions : \A k \in LaneRange :
            LET d == input1.buffer[x + k] - input2.buffer[x + k]
            IN  /\ output.buffer[x + k] = d
                /\ RoutineLane("WRAP", x, k) = d
                /\ RoutineLane("SATURATE", x, k) = d

\* 10 - 250 has been stored as -240 by the saturating routine
C9_Witness ==
    /\ _func = "sub_saturate_U8_U8_S16"
    /\ \E x \in DonePositions : \E k \in LaneRange :
          /\ input1.buffer[x + k] = 10
          /\ input2.buffer[x + k] = 250
          /\ output.buffer[x + k] = -240

---------------------------------------------------------------------------
\* the contents a single run over the whole configured window produces
FullRun == execute_window_loop(_func, _window, _window.start, OutputBuffer)

AllIdle == \A w \in Workers : threads[w].pc = "idle"

\* C5: when the scheduler has handed out the whole configured window in
\* disjoint sub-windows and every run has returned, in whatever order and
\* interleaving the worker threads took their steps, the output tensor holds
\* exactly what a single run over the configured window produces.
C5_PartitionConsistency ==
    (~IsUnconfigured(_window) /\ sched_todo = {} /\ AllIdle) =>
        output.buffer = FullRun

\* a two-step window has been run as its two one-step sub-windows
C5_Witness ==
    /\ sched_done = {Window(0, 16, 16), Window(16, 32, 16)}
    /\ sched_todo = {}
    /\ AllIdle
    /\ output.buffer = FullRun
    /\ output.buffer[1] # 77
    /\ output.buffer[17] # 77

---------------------------------------------------------------------------
\* the elements (buffer indices) a window covers
Covered(window) == {p \in 1..Capacity : window.start < p /\ p <= window.end}

RanSomething ==
    \/ \E w \in Callers, window \in CallerWindows : Run(w, window)
    \/ \E w \in Callers : Step(w)

\* C8: a step of any run call leaves the kernel's function, window and three
\* handles and both input tensors as they were, and changes output elements
\* only inside the sub-window supplied to a run in progress.
C8_RunFrame ==
    [][RanSomething =>
          /\ kernel' = kernel
          /\ input1' = input1
          /\ input2' = input2
          /\ output'.info = output.info
          /\ \A p \in 1..Capacity :
                output'.buffer[p] # output.buffer[p] =>
                    \E w \in Workers : /\ threads[w].pc = "loop"
                                       /\ p \in Covered(threads[w].arg)
      ]_vars

\* a run over the second step of a two-step row has returned and the first
\* step's elements still hold what they held before
C8_Witness ==
    /\ sched_done = {Window(16, 32, 16)}
    /\ output.buffer[17] # 77
    /\ \A p \in 1..16 : output.buffer[p] = 77
    /\ _func = "sub_F32_F32_F32"

---------------------------------------------------------------------------
\* a configuration that has not completed lacks the function or the window
NotCompleted == _func = "nullptr" \/ IsUnconfigured(_window)

\* sub lies inside full and steps as full does
IsSubwindowOf(sub, full) ==
    /\ sub.step = full.step
    /\ sub.start < sub.end
    /\ (sub.end - sub.start) % sub.step = 0
    /\ Positions(sub) \subseteq Positions(full)

NothingInvoked == threads' = threads /\ output' = output

\* C7: a run call on a kernel whose configuration has not completed fails
\* with NotConfigured, one with a window that is no sub-window of the
\* configured one fails with InvalidSubwindow, both without entering the
\* routine or writing; any other call enters the resolved routine once, on
\* exactly the supplied window (a half-float routine not compiled in fails
\* at its entry), and the routine's loop stays on that window's positions.
C7_RunPreconditions ==
    [][\A w \in Callers, window \in CallerWindows :
          Run(w, window) =>
              IF NotCompleted
              THEN result'.err = "NotConfigured" /\ NothingInvoked
              ELSE IF ~IsSubwindowOf(window, _window)
              THEN result'.err = "InvalidSubwindow" /\ NothingInvoked
              ELSE \/ /\ result'.err = "None"
                      /\ threads' = [threads EXCEPT
                                       ![w] = [pc |-> "loop", arg |-> window,
                                               window |-> window,
                                               x |-> window.start]]
                      /\ output' = output
                   \/ /\ NotCompiled(_func)
                      /\ result'.err = "UnsupportedType"
                      /\ NothingInvoked
      ]_vars

\* a run call was refused for its window on a configured kernel
C7_Witness ==
    /\ result.op = "run"
    /\ result.err = "InvalidSubwindow"
    /\ _func # "nullptr"
    /\ AllIdle

---------------------------------------------------------------------------
\* the combinations section 4.2 of the specification enumerates
Enumerated(t1, t2, t3) ==
    \/ t1 = t2 /\ t2 = t3 /\ t1 \in AdmissibleTypes
    \/ {t1, t2} = {"U8", "S16"} /\ t3 = "S16"
    \/ t1 = "U8" /\ t2 = "U8" /\ t3 = "S16"

\* the last call was a configure with three tensors of equal shapes and
\* admissible types
ConfiguredAdmissible ==
    /\ result.op = "configure"
    /\ result.err # "InvalidArgument"
    /\ input1.info.tensor_shape = input2.info.tensor_shape
    /\ input1.info.tensor_shape = output.info.tensor_shape
    /\ {input1.info.data_type, input2.info.data_type, output.info.data_type}
          \subseteq AdmissibleTypes

SomeFixedPoint ==
    \E t \in {input1, input2, output} : is_data_type_fixed_point(t.info.data_type)

SamePositions ==
    /\ input1.info.fixed_point_position = input2.info.fixed_point_position
    /\ input1.info.fixed_point_position = output.info.fixed_point_position

\* C2 as claimed: configure resolves a function for every enumerated
\* combination and fails with InvalidTypeCombination for every other
\* combination of admissible types.
C2_CoverageAsClaimed ==
    ConfiguredAdmissible =>
        IF Enumerated(input1.info.data_type, input2.info.data_type, output.info.data_type)
        THEN result.err = "None" /\ _func # "nullptr"
        ELSE result.err = "InvalidTypeCombination"

\* C2 as amended: configure resolves a function for every enumerated
\* combination whose fixed-point positions agree, and fails with
\* FixedPointMismatch when they do not; a combination that is not enumerated
\* fails with InvalidTypeCombination when its output is U8 or none of its
\* types is fixed-point, and with FixedPointMismatch otherwise.
C2_CoverageAmended ==
    ConfiguredAdmissible =>
        IF Enumerated(input1.info.data_type, input2.info.data_type, output.info.data_type)
        THEN IF SamePositions
             THEN /\ result.err = "None"
                  /\ _func # "nullptr"
                  /\ _func = PolicyRoutine(policy)
             ELSE result.err = "FixedPointMismatch"
        ELSE IF output.info.data_type = "U8" \/ ~SomeFixedPoint
             THEN result.err = "InvalidTypeCombination"
             ELSE result.err = "FixedPointMismatch"

\* configure has resolved the routine of an enumerated promotion
C2_Witness ==
    /\ ConfiguredAdmissible
    /\ policy = "SATURATE"
    /\ input1.info.data_type = "U8"
    /\ input2.info.data_type = "U8"
    /\ output.info.data_type = "S16"
    /\ result.err = "None"
    /\ _func = "sub_saturate_U8_U8_S16"

---------------------------------------------------------------------------
FailedConfigure ==
    /\ \E a \in ConfigureArgs : Configure(a[1], a[2], a[3])
    /\ result'.err # "None"

\* C6: a configure that fails at any of its checks leaves the kernel as it
\* was (handles, function and window not set, an unconfigured kernel still
\* unconfigured) and every output element unmodified.
C6_NoPartialConfiguration ==
    [][FailedConfigure =>
          /\ _input1' = _input1 /\ _input2' = _input2 /\ _output' = _output
          /\ _func' = _func
          /\ _window' = _window
          /\ output'.buffer = output.buffer
          /\ (NotCompleted => NotCompleted')
      ]_vars

---------------------------------------------------------------------------
\* C10: a configure on three tensors gives an output without a shape the
\* shape of input1 and an output without an element type S16 if either input
\* is S16, else F16 if either is F16, else F32 if either is F32, else none;
\* a shape or type the output already has is kept, whatever configure then
\* decides.
C10_AutoInitialization ==
    [][(Configure("input1", "input2", "output")) =>
          LET t1 == input1.info.data_type
              t2 == input2.info.data_type
          IN  /\ output'.info.tensor_shape =
                    IF output.info.tensor_shape = 0
                    THEN input1.info.tensor_shape
                    ELSE output.info.tensor_shape
              /\ output'.info.data_type =
                    IF output.info.data_type # "UNKNOWN" THEN output.info.data_type
                    ELSE IF "S16" \in {t1, t2} THEN "S16"
                    ELSE IF "F16" \in {t1, t2} THEN "F16"
                    ELSE IF "F32" \in {t1, t2} THEN "F32"
                    ELSE "UNKNOWN"
              /\ output'.info.fixed_point_position = output.info.fixed_point_position
              /\ output'.buffer = output.buffer
      ]_vars

\* an output without shape and type was given both, S16 winning over F16
C10_Witness ==
    /\ result.op = "configure"
    /\ result.set_shape
    /\ result.set_format
    /\ input1.info.data_type = "F16"
    /\ input2.info.data_type = "S16"
    /\ output.info.data_type = "S16"
    /\ output.info.tensor_shape = input1.info.tensor_shape

=============================================================================
